---- MODULE Spec2Model ----
(***************************************************************************)
(* WhatsConnect: the messaging session lifecycle of                        *)
(* server/routes/conversations.js (the WhatsApp router) and the contact    *)
(* store updates of its inbound and outbound pipelines.                    *)
(*                                                                         *)
(* The module-level variables of the router are the state; every event     *)
(* handler, timer callback and route handler is one action (an async       *)
(* handler is one action per stretch between two awaits).  The transport   *)
(* library is a black box: a created client may emit any of its events     *)
(* while it is alive, and its promises settle either way.                  *)
(***************************************************************************)
EXTENDS Integers, FiniteSets, Sequences, Bags, TLC

\* ------------------------------------------------------------------ bounds
MaxOrphans == 1        \* transport clients alive that the handle no longer names
MaxTimers  == 2        \* timers pending at once
MaxInbound == 3        \* inbound message events in one run
MaxSends   == 2        \* send requests that reach the transport in one run
MaxEvents  == 3        \* inbound events and dispatched sends together in one run
MaxStoreInbound == 2   \* inbound events in one run of StoreSpec
MaxStoreSends   == 1   \* dispatched sends in one run of StoreSpec
MaxArrivals     == 2   \* inbound events in one run of ArrivalSpec
MaxMessages     == 3   \* stored Messages beyond which POST /api/messages is not drawn
MaxViews        == 1   \* GET / requests in flight
MaxViewArrivals == 1   \* inbound events in one run of ViewSpec
MaxReplyArrivals == 1  \* inbound events in one run of ReplySpec
MaxReplySends == 1     \* dispatched sends in one run of ReplySpec
MaxElapsed      == 200  \* minutes between lastContacted and now in SlaSpec
MaxWords        == 3   \* words of a text in ClassifySpec
MaxRenders      == 1   \* GET /qr requests waiting for the renderer

\* --------------------------------------------------------- program constants
MAX_RETRIES == 3
BackoffBase == 1000
DefaultSlaHours == 2   \* calculateSLATime(lastMessageTime, slaHours = 2)
MsPerMinute == 60000
BackoffCap  == 10000

\* A transport client object is modelled by its transport-side state:
\*   "starting"  created, initialize() running (its promise unsettled)
\*   "ready"     it emitted ready
\*   "failed"    initialize() rejected or authentication failed; not destroyed
\*   "closing"   destroyed while initialize() was still unsettled (it may yet reject)
\*   "gone"      destroyed or disconnected, nothing left to happen
ClientStates == {"starting", "ready", "failed", "closing", "gone"}
NoClient == "null"     \* whatsappClient = null
NoQr     == "null"     \* qrCodeData = null
QrCode   == "qr"       \* qrCodeData = a pairing string

\* error.message of a transport error: the three classes the handlers tell
\* apart, and a rejection value that carries no message string at all
ErrorKinds == {"EBUSY", "Protocol error", "other", "nomessage"}
Outcomes   == ErrorKinds \cup {"ok"}

VARIABLES
    whatsappClient,   \* the client the module's handle names (by its state), or NoClient
    qrCodeData,       \* NoQr or QrCode
    isReady,
    isInitializing,
    retryCount,
    orphans,          \* bag of clients still alive in the transport that the handle dropped
    timers,           \* bag of pending setTimeout callbacks
    dpc,              \* POST /disconnect handler: "idle" | "logout" | "destroy"
    rpc,              \* POST /reconnect handler: "idle" | "destroy"
    contacts,         \* the Contact collection: a sequence of documents, _id = index
    messages,         \* the Message collection, in the order of creation
    inbound,          \* 'message' handlers in flight
    sends,            \* POST /send handlers in flight, past the transport call
    views,            \* GET / (conversation list) handlers in flight, past the aggregate
    sla,              \* a call of calculateSLATime: its arguments, the clock and its result
    verdict,          \* a call of analyzeSentiment: its argument and its result
    renders,          \* GET /qr handlers waiting for qrcode.toDataURL, by the code they passed
    arrived,          \* inbound message events so far
    dispatched,       \* send requests handed to the transport so far
    exhausted,        \* observation: retryWithBackoff gave up and no command came since
    last,             \* observation: the step that was just taken
    obs               \* observation: what that step did (response, scheduled delay, ...)

sessionVars == <<whatsappClient, qrCodeData, isReady, isInitializing, retryCount>>
sessionState == <<whatsappClient, qrCodeData, isReady, isInitializing, retryCount,
                  orphans, timers, dpc, rpc, exhausted>>
readVars == <<views, sla, verdict, renders>>
storeVars == <<contacts, messages, inbound, sends, views, sla, verdict, renders,
              arrived, dispatched>>
vars == <<whatsappClient, qrCodeData, isReady, isInitializing, retryCount,
          orphans, timers, dpc, rpc, contacts, messages, inbound, sends, views, sla, verdict,
          renders,
          arrived, dispatched, exhausted, last, obs>>

\* ------------------------------------------------------------------ helpers
Min(a, b) == IF a < b THEN a ELSE b

RECURSIVE Pow2(_)
Pow2(n) == IF n <= 0 THEN 1 ELSE 2 * Pow2(n - 1)

\* a delay that grows by the base instead of doubling (1000, 2000, 3000)
BackoffDelayLinear(attempt) == Min(BackoffBase * attempt, BackoffCap)

\* conversations.js:301  Math.min(1000 * Math.pow(2, retryCount - 1), 10000)
BackoffDelay(attempt) == Min(BackoffBase * Pow2(attempt - 1), BackoffCap)

Add(bag, x)    == bag (+) SetToBag({x})
Remove(bag, x) == bag (-) SetToBag({x})

\* the handle stops naming client x: x lives on in the transport unless it is gone
CanDrop(x, orph) == x \in {NoClient, "gone"} \/ BagCardinality(orph) < MaxOrphans
Drop(x, orph)    == IF x \in {NoClient, "gone"} THEN orph ELSE Add(orph, x)

\* an event of a client, the handle's ("handle") or a dropped one ("orphan"), that is
\* in state from and moves to state to
Who == {"handle", "orphan"}
Emits(who, from) ==
    IF who = "handle" THEN whatsappClient = from ELSE BagIn(from, orphans)
HandleAfter(who, to) == IF who = "handle" THEN to ELSE whatsappClient
OrphansAfter(who, from, to) ==
    IF who = "handle" THEN orphans
    ELSE IF to = "gone" THEN Remove(orphans, from)
    ELSE Add(Remove(orphans, from), to)

\* clients that were created and are neither destroyed nor disconnected
LiveStates == {"starting", "ready", "failed"}
LiveOrphans == {o \in BagToSet(orphans) : o \in LiveStates}
RECURSIVE Copies(_, _)
Copies(S, bag) ==
    IF S = {} THEN 0
    ELSE LET x == CHOOSE y \in S : TRUE IN CopiesIn(x, bag) + Copies(S \ {x}, bag)
LiveCount == (IF whatsappClient \in LiveStates THEN 1 ELSE 0) + Copies(LiveOrphans, orphans)

\* a pending callback: which one it is, and whether a command tore the session down
\* while it was pending.  Callbacks fire in any order: handlers suspend for
\* arbitrary times, so a delay orders nothing.
RetryTimer   == [kind |-> "retry", stale |-> FALSE]
CleanupTimer == [kind |-> "cleanup", stale |-> FALSE]
StartTimer   == [kind |-> "start", stale |-> FALSE]
Timers       == {[kind |-> k, stale |-> b] : k \in {"retry", "cleanup", "start"}, b \in BOOLEAN}
TimerCount   == BagCardinality(timers)
RetryPending == \E t \in BagToSet(timers) : t.kind = "retry"


NoObs == [code |-> 0, delay |-> 0, created |-> FALSE, destroyed |-> FALSE,
          stale |-> FALSE, sent |-> FALSE, who |-> "none",
          kind |-> "none", list |-> <<>>, connected |-> FALSE, hasQR |-> FALSE]

\* ---------------------------------------------------------------- Init
\* conversations.js:139-143 and the initWhatsApp() call at module load (358)
\* the state after the module is loaded, but for the SLA call
InitBase ==
    /\ whatsappClient = "starting"
    /\ qrCodeData = NoQr
    /\ isReady = FALSE
    /\ isInitializing = TRUE
    /\ retryCount = 0
    /\ orphans = EmptyBag
    /\ timers = EmptyBag
    /\ dpc = "idle"
    /\ rpc = "idle"
    /\ contacts = <<>>
    /\ messages = <<>>
    /\ inbound = {}
    /\ sends = {}
    /\ views = {}
    /\ renders = EmptyBag
    /\ arrived = 0
    /\ dispatched = 0
    /\ exhausted = FALSE
    /\ last = "load"
    /\ obs = NoObs

\* no call of calculateSLATime yet
NoTime   == 0 - 1
NoWindow == [overdue |-> FALSE, minutes |-> 0, text |-> "null", urgent |-> FALSE]
NoSla    == [lastMessageTime |-> NoTime, now |-> 0, window |-> NoWindow]

\* no call of analyzeSentiment yet
NoVerdict == [text |-> <<>>, result |-> [sentiment |-> "none", score |-> 0]]

Init == InitBase /\ sla = NoSla /\ verdict = NoVerdict

\* ------------------------------------------------------- shared sub-steps
\* client.destroy(): the transport tears the client down, whatever the promise says later
Destroy(x) ==
    IF x = NoClient THEN NoClient
    ELSE IF x \in {"starting", "closing"} THEN "closing"
    ELSE "gone"

\* conversations.js:292-322  retryWithBackoff(), called (after isInitializing = false)
\* when the handle names wc: give up at MAX_RETRIES, else count the attempt and
\* schedule the retry callback
RetryWithBackoff(wc, orph) ==
    /\ isInitializing' = FALSE
    /\ IF retryCount >= MAX_RETRIES
       THEN /\ CanDrop(wc, orph)
            /\ whatsappClient' = NoClient
            /\ orphans' = Drop(wc, orph)
            /\ exhausted' = TRUE
            /\ UNCHANGED <<retryCount, timers>>
            /\ obs' = NoObs
       ELSE /\ TimerCount < MaxTimers
            /\ retryCount' = retryCount + 1
            /\ timers' = Add(timers, RetryTimer)
            /\ whatsappClient' = wc
            /\ orphans' = orph
            /\ UNCHANGED exhausted
            /\ obs' = [NoObs EXCEPT !.delay = BackoffDelay(retryCount + 1)]

\* initWhatsApp whose guard looks at isInitializing only, not at the handle
InitWhatsAppFlagOnly(wc, ini, resetRetryCount) ==
    IF ini
    THEN /\ whatsappClient' = wc
         /\ isInitializing' = ini
         /\ UNCHANGED retryCount
    ELSE /\ isInitializing' = TRUE
         /\ retryCount' = (IF resetRetryCount THEN 0 ELSE retryCount)
         /\ whatsappClient' = "starting"

\* conversations.js:147-173, 324-340  initWhatsApp(resetRetryCount), called when the
\* handle names wc and the flag is ini
InitWhatsApp(wc, ini, resetRetryCount) ==
    IF wc # NoClient \/ ini
    THEN /\ whatsappClient' = wc
         /\ isInitializing' = ini
         /\ UNCHANGED retryCount
    ELSE /\ isInitializing' = TRUE
         /\ retryCount' = (IF resetRetryCount THEN 0 ELSE retryCount)
         /\ whatsappClient' = "starting"

\* ------------------------------------------------------- transport events
\* conversations.js:175-182
OnQr(who) ==
    /\ UNCHANGED storeVars
    /\ Emits(who, "starting")
    /\ qrCodeData' = QrCode
    /\ last' = "qr"
    /\ obs' = [NoObs EXCEPT !.who = who]
    /\ UNCHANGED <<whatsappClient, isReady, isInitializing, retryCount,
                   orphans, timers, dpc, rpc, exhausted>>

\* a ready handler that leaves retryCount alone
OnReadyKeepCount(who) ==
    /\ UNCHANGED storeVars
    /\ Emits(who, "starting")
    /\ whatsappClient' = HandleAfter(who, "ready")
    /\ orphans' = OrphansAfter(who, "starting", "ready")
    /\ isReady' = TRUE
    /\ qrCodeData' = NoQr
    /\ isInitializing' = FALSE
    /\ UNCHANGED retryCount
    /\ last' = "ready"
    /\ obs' = [NoObs EXCEPT !.who = who]
    /\ UNCHANGED <<timers, dpc, rpc, exhausted>>

\* conversations.js:184-190
OnReady(who) ==
    /\ UNCHANGED storeVars
    /\ Emits(who, "starting")
    /\ whatsappClient' = HandleAfter(who, "ready")
    /\ orphans' = OrphansAfter(who, "starting", "ready")
    /\ isReady' = TRUE
    /\ qrCodeData' = NoQr
    /\ isInitializing' = FALSE
    /\ retryCount' = 0
    /\ last' = "ready"
    /\ obs' = [NoObs EXCEPT !.who = who]
    /\ UNCHANGED <<timers, dpc, rpc, exhausted>>

\* conversations.js:196-199
OnAuthFailure(who) ==
    /\ UNCHANGED storeVars
    /\ Emits(who, "starting")
    /\ whatsappClient' = HandleAfter(who, "failed")
    /\ orphans' = OrphansAfter(who, "starting", "failed")
    /\ isReady' = FALSE
    /\ last' = "auth_failure"
    /\ obs' = [NoObs EXCEPT !.who = who]
    /\ UNCHANGED <<qrCodeData, isInitializing, retryCount, timers, dpc, rpc, exhausted>>

\* conversations.js:201-209
OnDisconnected(who) ==
    /\ UNCHANGED storeVars
    /\ Emits(who, "ready")
    /\ TimerCount < MaxTimers
    /\ whatsappClient' = HandleAfter(who, "gone")
    /\ orphans' = OrphansAfter(who, "ready", "gone")
    /\ isReady' = FALSE
    /\ isInitializing' = FALSE
    /\ timers' = Add(timers, CleanupTimer)
    /\ last' = "disconnected"
    /\ obs' = [NoObs EXCEPT !.who = who]
    /\ UNCHANGED <<qrCodeData, retryCount, dpc, rpc, exhausted>>

\* an error handler that takes the retry path for every error but the unclassified ones
OnErrorRetryBusy(who, e) ==
    /\ UNCHANGED storeVars
    /\ \E from \in {"starting", "ready"} : Emits(who, from)
    /\ last' = "error"
    /\ IF e \in {"Protocol error", "EBUSY"}
       THEN RetryWithBackoff(whatsappClient, orphans)
       ELSE /\ UNCHANGED <<whatsappClient, orphans, isInitializing, retryCount,
                           timers, exhausted>>
            /\ obs' = [NoObs EXCEPT !.kind = e]
    /\ UNCHANGED <<qrCodeData, isReady, dpc, rpc>>

\* conversations.js:212-226
OnError(who, e) ==
    /\ UNCHANGED storeVars
    /\ \E from \in {"starting", "ready"} : Emits(who, from)
    /\ last' = "error"
    /\ IF e = "Protocol error"
       THEN RetryWithBackoff(whatsappClient, orphans)
       ELSE /\ UNCHANGED <<whatsappClient, orphans, isInitializing, retryCount,
                           timers, exhausted>>
            /\ obs' = [NoObs EXCEPT !.kind = e]
    /\ UNCHANGED <<qrCodeData, isReady, dpc, rpc>>

\* conversations.js:325-340  initialize() of a client rejects: every branch retries
InitFail(who, e) ==
    /\ UNCHANGED storeVars
    /\ \E from \in {"starting", "closing"} :
          LET to == IF from = "starting" THEN "failed" ELSE "gone" IN
          /\ Emits(who, from)
          /\ RetryWithBackoff(HandleAfter(who, to), OrphansAfter(who, from, to))
    /\ last' = "init_fail"
    /\ UNCHANGED <<qrCodeData, isReady, dpc, rpc>>

\* ------------------------------------------------------- timer callbacks
\* conversations.js:305-321  the retry callback: destroy the current client, if any,
\* and initialize again without resetting retryCount
RetryFire(t) ==
    /\ UNCHANGED storeVars
    /\ BagIn(t, timers) /\ t.kind = "retry"
    /\ timers' = Remove(timers, t)
    /\ CanDrop(Destroy(whatsappClient), orphans)
    /\ orphans' = Drop(Destroy(whatsappClient), orphans)
    /\ InitWhatsApp(NoClient, FALSE, FALSE)
    /\ last' = "retry_fire"
    /\ obs' = [NoObs EXCEPT !.created = TRUE, !.destroyed = (whatsappClient # NoClient),
                            !.stale = t.stale]
    /\ UNCHANGED <<qrCodeData, isReady, dpc, rpc, exhausted>>

\* conversations.js:206-208  the delayed cleanup of the disconnected handler
CleanupFire(t) ==
    /\ UNCHANGED storeVars
    /\ BagIn(t, timers) /\ t.kind = "cleanup"
    /\ timers' = Remove(timers, t)
    /\ CanDrop(whatsappClient, orphans)
    /\ whatsappClient' = NoClient
    /\ orphans' = Drop(whatsappClient, orphans)
    /\ last' = "cleanup_fire"
    /\ obs' = NoObs
    /\ UNCHANGED <<qrCodeData, isReady, isInitializing, retryCount, dpc, rpc, exhausted>>

\* conversations.js:423-425, 648-650  the settle timer of a command: initWhatsApp()
StartFire(t) ==
    /\ UNCHANGED storeVars
    /\ BagIn(t, timers) /\ t.kind = "start"
    /\ timers' = Remove(timers, t)
    /\ InitWhatsApp(whatsappClient, isInitializing, TRUE)
    /\ last' = "start"
    /\ obs' = [NoObs EXCEPT !.created = (whatsappClient = NoClient /\ ~isInitializing)]
    /\ exhausted' = (exhausted /\ ~(whatsappClient = NoClient /\ ~isInitializing))
    /\ UNCHANGED <<qrCodeData, isReady, orphans, dpc, rpc>>

\* ------------------------------------------------------- commands
\* a retry timer that is still pending when a command has torn the session down
MarkStale(t) == IF t.kind = "retry" THEN [t EXCEPT !.stale = TRUE] ELSE t

\* the bag B of pending timers with every timer t replaced by MarkStale(t)
MarkAll(B) ==
    LET S == BagToSet(B)
        T == {MarkStale(t) : t \in S}
    IN  [u \in T |-> Copies({t \in S : MarkStale(t) = u}, B)]

\* conversations.js:417-430  the tail of POST /disconnect: reset, schedule Start, answer
DisconnectTeardown ==
    /\ TimerCount < MaxTimers
    /\ CanDrop(whatsappClient, orphans)
    /\ whatsappClient' = NoClient
    /\ orphans' = Drop(whatsappClient, orphans)
    /\ qrCodeData' = NoQr
    /\ isReady' = FALSE
    /\ isInitializing' = FALSE
    /\ retryCount' = 0
    /\ timers' = Add(MarkAll(timers), StartTimer)
    /\ dpc' = "idle"
    /\ last' = "disconnect_done"
    /\ obs' = [NoObs EXCEPT !.code = 200]

\* conversations.js:396-403  POST /disconnect up to its first await
DisconnectCall ==
    /\ UNCHANGED storeVars
    /\ dpc = "idle"
    /\ IF whatsappClient = NoClient
       THEN DisconnectTeardown
       ELSE /\ dpc' = "logout"
            /\ last' = "disconnect_call"
            /\ obs' = NoObs
            /\ UNCHANGED <<whatsappClient, orphans, qrCodeData, isReady, isInitializing,
                           retryCount, timers>>
    /\ exhausted' = FALSE
    /\ UNCHANGED rpc

\* conversations.js:399-406  logout() settled (either way): destroy() of the handle as
\* it is now; on a null handle the call throws a TypeError the inner catch absorbs
DisconnectAfterLogout(e) ==
    /\ UNCHANGED storeVars
    /\ dpc = "logout"
    /\ IF whatsappClient = NoClient
       THEN DisconnectTeardown
       ELSE /\ dpc' = "destroy"
            /\ whatsappClient' = Destroy(whatsappClient)
            /\ last' = "disconnect_logout"
            /\ obs' = [NoObs EXCEPT !.destroyed = TRUE]
            /\ UNCHANGED <<orphans, qrCodeData, isReady, isInitializing, retryCount, timers>>
    /\ exhausted' = FALSE
    /\ UNCHANGED rpc

\* conversations.js:405-437  destroy() settled with e: the inner catch reads
\* e.message.includes(...), which throws on a value without a message string and
\* lands in the outer catch (500, nothing reset)
DisconnectAfterDestroy(e) ==
    /\ UNCHANGED storeVars
    /\ dpc = "destroy"
    /\ IF e = "nomessage"
       THEN /\ dpc' = "idle"
            /\ last' = "disconnect_done"
            /\ obs' = [NoObs EXCEPT !.code = 500]
            /\ UNCHANGED <<whatsappClient, orphans, qrCodeData, isReady, isInitializing,
                           retryCount, timers>>
       ELSE DisconnectTeardown
    /\ exhausted' = FALSE
    /\ UNCHANGED rpc

\* conversations.js:642-652  the tail of POST /reconnect
ReconnectTeardown ==
    /\ TimerCount < MaxTimers
    /\ CanDrop(whatsappClient, orphans)
    /\ whatsappClient' = NoClient
    /\ orphans' = Drop(whatsappClient, orphans)
    /\ isReady' = FALSE
    /\ qrCodeData' = NoQr
    /\ timers' = Add(MarkAll(timers), StartTimer)
    /\ rpc' = "idle"
    /\ last' = "reconnect_done"
    /\ obs' = [NoObs EXCEPT !.code = 200]

\* conversations.js:628-635  POST /reconnect up to its await
ReconnectCall ==
    /\ UNCHANGED storeVars
    /\ rpc = "idle"
    /\ isInitializing' = FALSE
    /\ retryCount' = 0
    /\ IF whatsappClient = NoClient
       THEN ReconnectTeardown
       ELSE /\ rpc' = "destroy"
            /\ whatsappClient' = Destroy(whatsappClient)
            /\ last' = "reconnect_call"
            /\ obs' = [NoObs EXCEPT !.destroyed = TRUE]
            /\ UNCHANGED <<orphans, qrCodeData, isReady, timers>>
    /\ exhausted' = FALSE
    /\ UNCHANGED dpc

\* conversations.js:635-656  destroy() settled with e
ReconnectAfterDestroy(e) ==
    /\ UNCHANGED storeVars
    /\ rpc = "destroy"
    /\ IF e = "nomessage"
       THEN /\ rpc' = "idle"
            /\ last' = "reconnect_done"
            /\ obs' = [NoObs EXCEPT !.code = 500]
            /\ UNCHANGED <<whatsappClient, orphans, qrCodeData, isReady, timers>>
       ELSE ReconnectTeardown
    /\ exhausted' = FALSE
    /\ UNCHANGED <<isInitializing, retryCount, dpc>>

\* conversations.js:442-446  the guard of POST /send
SendGuard == isReady /\ whatsappClient # NoClient

\* conversations.js:442-446, 496  POST /send up to the transport call: 400 unless the
\* guard passes, else (validation aside) sendMessage on the current handle
SendCall ==
    /\ UNCHANGED storeVars
    /\ last' = "send"
    /\ obs' = IF SendGuard
              THEN [NoObs EXCEPT !.sent = TRUE]
              ELSE [NoObs EXCEPT !.code = 400]
    /\ UNCHANGED <<whatsappClient, qrCodeData, isReady, isInitializing, retryCount,
                   orphans, timers, dpc, rpc, exhausted>>

\* ------------------------------------------------------- the contact store
\* conversations.js:455  phone.replace(/\D/g, ''): a string is a sequence of characters
DigitChars == {"0", "1", "2", "3", "4", "5", "6", "7", "8", "9"}
IsDigit(c) == c \in DigitChars
\* a cleaning that removes only the blanks
NotBlank(c) == c # " "
CleanBlanks(phone) == SelectSeq(phone, NotBlank)
Clean(phone) == SelectSeq(phone, IsDigit)

\* conversations.js:487, 496  message.trim()
RECURSIVE TrimLeft(_)
TrimLeft(m) == IF m # <<>> /\ Head(m) = " " THEN TrimLeft(Tail(m)) ELSE m
RECURSIVE TrimRight(_)
TrimRight(m) ==
    IF m # <<>> /\ m[Len(m)] = " " THEN TrimRight(SubSeq(m, 1, Len(m) - 1)) ELSE m
Trim(m) == TrimRight(TrimLeft(m))

\* req.body.phone: none, no digit, 9, 10 (with separators), 15 and 16 digits
RawPhones ==
    { <<>>,
      <<"+", "-">>,
      <<"1", "2", "3", "4", "5", "6", "7", "8", "9">>,
      <<"(", "1", "2", "3", ")", " ", "4", "5", "6", "-", "7", "8", "9", "0">>,
      <<"+", "9", "1", "9", "8", "7", "6", "5", "4", "3", "2", "1", "0", "1", "2", "3">>,
      <<"9", "1", "9", "8", "7", "6", "5", "4", "3", "2", "1", "0", "1", "2", "3", "4">> }
\* req.body.message: none, blank, text with blanks around it
RawMessages == { <<>>, <<" ", " ">>, <<" ", "h", "i", " ">> }

\* phone numbers as POST /send and the 'message' handler hold them after cleaning
Phones    == {c \in {Clean(p) : p \in RawPhones} : Len(c) >= 10 /\ Len(c) <= 15}
NoContact == 0
NoDoc     == [id |-> NoContact, unreadCount |-> 0, queryStatus |-> "none"]
\* the time of a step, in events so far (msg.timestamp, new Date())
Now       == arrived + dispatched

ContactIds == DOMAIN contacts
\* Contact.findOne({ phone }): the first document with that phone, or null
FindOne(phone) ==
    IF \E i \in ContactIds : contacts[i].phone = phone
    THEN CHOOSE i \in ContactIds :
            /\ contacts[i].phone = phone
            /\ \A j \in ContactIds : contacts[j].phone = phone => i <= j
    ELSE NoContact
\* Contact.findById(id)
FindById(id) == IF id \in ContactIds THEN id ELSE NoContact
\* the in-memory copy of a document a query returned
DocOf(id) ==
    IF id = NoContact THEN NoDoc
    ELSE [id |-> id, unreadCount |-> contacts[id].unreadCount,
          queryStatus |-> contacts[id].queryStatus]

\* ------------------------------------------------------- message text
\* String.prototype.toLowerCase over the letters A-Z
UpperChars == <<"A", "B", "C", "D", "E", "F", "G", "H", "I", "J", "K", "L", "M">> \o
              <<"N", "O", "P", "Q", "R", "S", "T", "U", "V", "W", "X", "Y", "Z">>
LowerChars == <<"a", "b", "c", "d", "e", "f", "g", "h", "i", "j", "k", "l", "m">> \o
              <<"n", "o", "p", "q", "r", "s", "t", "u", "v", "w", "x", "y", "z">>
ToLowerChar(c) ==
    IF \E i \in DOMAIN UpperChars : UpperChars[i] = c
    THEN LowerChars[CHOOSE i \in DOMAIN UpperChars : UpperChars[i] = c]
    ELSE c
ToLowerCase(m) == [i \in DOMAIN m |-> ToLowerChar(m[i])]
\* String.prototype.includes
Includes(m, w) == \E i \in 1..(Len(m) - Len(w) + 1) : SubSeq(m, i, i + Len(w) - 1) = w

\* conversations.js:128-129  the keyword lists of analyzeSentiment
PositiveWords ==
    { <<"t", "h", "a", "n", "k">>, <<"t", "h", "a", "n", "k", "s">>,
      <<"g", "r", "e", "a", "t">>, <<"g", "o", "o", "d">>,
      <<"e", "x", "c", "e", "l", "l", "e", "n", "t">>, <<"h", "a", "p", "p", "y">>,
      <<"s", "a", "t", "i", "s", "f", "i", "e", "d">>, <<"l", "o", "v", "e">>,
      <<"p", "e", "r", "f", "e", "c", "t">>, <<"a", "w", "e", "s", "o", "m", "e">>,
      <<"a", "m", "a", "z", "i", "n", "g">>, <<"w", "o", "n", "d", "e", "r", "f", "u", "l">>,
      <<"p", "l", "e", "a", "s", "e", "d">> }
NegativeWords ==
    { <<"b", "a", "d">>, <<"t", "e", "r", "r", "i", "b", "l", "e">>,
      <<"w", "o", "r", "s", "t">>, <<"a", "n", "g", "r", "y">>,
      <<"f", "r", "u", "s", "t", "r", "a", "t", "e", "d">>,
      <<"d", "i", "s", "a", "p", "p", "o", "i", "n", "t", "e", "d">>, <<"h", "a", "t", "e">>,
      <<"p", "r", "o", "b", "l", "e", "m">>, <<"i", "s", "s", "u", "e">>,
      <<"e", "r", "r", "o", "r">>, <<"w", "r", "o", "n", "g">>,
      <<"b", "r", "o", "k", "e", "n">>, <<"r", "e", "f", "u", "n", "d">>,
      <<"c", "a", "n", "c", "e", "l">>, <<"c", "o", "m", "p", "l", "a", "i", "n", "t">> }

\* conversations.js:125-137  analyzeSentiment(message); the score is in tenths
AnalyzeSentiment(message) ==
    LET lowerMsg == ToLowerCase(message)
        positiveCount == Cardinality({w \in PositiveWords : Includes(lowerMsg, w)})
        negativeCount == Cardinality({w \in NegativeWords : Includes(lowerMsg, w)})
    IN  IF negativeCount > positiveCount THEN [sentiment |-> "negative", score |-> 7]
        ELSE IF positiveCount > negativeCount THEN [sentiment |-> "positive", score |-> 7]
        ELSE [sentiment |-> "neutral", score |-> 5]

\* the words of the texts that are classified on their own
Vocabulary == { <<"b", "a", "d">>, <<"G", "O", "O", "D">>,
                <<"t", "h", "a", "n", "k", "s">>, <<"o", "k">> }
\* the words ws joined by blanks
RECURSIVE Join(_)
Join(ws) ==
    IF ws = <<>> THEN <<>>
    ELSE IF Len(ws) = 1 THEN ws[1]
    ELSE ws[1] \o <<" ">> \o Join(Tail(ws))
\* message: every text of up to MaxWords words
Texts == UNION {{Join(ws) : ws \in [1..n -> Vocabulary]} : n \in 0..MaxWords}

\* msg.body of the inbound events: a complaint, thanks, and a text without keyword
Bodies == { <<"r", "e", "f", "u", "n", "d">>, <<"T", "h", "a", "n", "k", "s">>, <<"o", "k">> }
\* a body without keyword
PlainBodies == { <<"o", "k">> }
\* the sentiment of each body
SentimentOf == [b \in Bodies |-> AnalyzeSentiment(b)]

\* conversations.js:239, 591  the placeholder name; a name the transport knows
CustomerName == <<"C", "u", "s", "t", "o", "m", "e", "r">>
PushName     == <<"A", "n", "n">>

\* conversations.js:229-234  a 'message' event: the handler starts and awaits findOne
OnMessage(who, phone, body) ==
    /\ Emits(who, "ready")
    /\ arrived < MaxInbound /\ Now < MaxEvents
    /\ arrived' = arrived + 1
    /\ inbound' = inbound \cup {[ts |-> Now + 1, phone |-> phone, body |-> body,
                                 pc |-> "find", doc |-> NoDoc, name |-> CustomerName]}
    /\ last' = "message"
    /\ obs' = [NoObs EXCEPT !.who = who]
    /\ UNCHANGED <<contacts, messages, sends, dispatched>>
    /\ UNCHANGED <<readVars, sessionState>>

\* conversations.js:234-236  findOne answers
InboundFind(h) ==
    /\ h \in inbound /\ h.pc = "find"
    /\ LET id == FindOne(h.phone) IN
       inbound' = (inbound \ {h}) \cup
                  {[h EXCEPT !.pc = IF id = NoContact THEN "name" ELSE "save",
                             !.doc = DocOf(id)]}
    /\ last' = "inbound_find"
    /\ obs' = NoObs
    /\ UNCHANGED <<contacts, messages, sends, arrived, dispatched>>
    /\ UNCHANGED <<readVars, sessionState>>

\* conversations.js:239-250  no contact: getContactById answers with a pushname or name,
\* or with neither, or fails (also when the handle is null by now); the failure is caught
InboundName(h, found) ==
    /\ h \in inbound /\ h.pc = "name"
    /\ inbound' = (inbound \ {h}) \cup
                  {[h EXCEPT !.pc = "create",
                             !.name = IF found /\ whatsappClient # NoClient
                                      THEN PushName ELSE CustomerName]}
    /\ last' = "inbound_name"
    /\ obs' = [NoObs EXCEPT !.kind = IF found /\ whatsappClient # NoClient
                                    THEN "named" ELSE "unnamed"]
    /\ UNCHANGED <<contacts, messages, sends, arrived, dispatched>>
    /\ UNCHANGED <<readVars, sessionState>>

\* Contact.create(doc): the collection is keyed by the generated id and phone is a
\* lookup field, not a key, so the document is stored whatever phones are stored already
ContactCreate(doc) == Append(contacts, doc)

\* a handler that creates the contact with nothing unread
InboundCreateRead(h) ==
    /\ h \in inbound /\ h.pc = "create"
    /\ contacts' = ContactCreate([name |-> h.name, phone |-> h.phone, unreadCount |-> 0,
                                     queryStatus |-> "new", lastContacted |-> h.ts,
                                     arrivals |-> 1])
    /\ inbound' = (inbound \ {h}) \cup
                  {[h EXCEPT !.pc = "message", !.doc = [NoDoc EXCEPT !.id = Len(contacts) + 1]]}
    /\ last' = "inbound_create"
    /\ obs' = NoObs
    /\ UNCHANGED <<messages, sends, arrived, dispatched>>
    /\ UNCHANGED <<readVars, sessionState>>

\* conversations.js:236-259  no contact: create one
InboundCreate(h) ==
    /\ h \in inbound /\ h.pc = "create"
    /\ contacts' = ContactCreate([name |-> h.name, phone |-> h.phone, unreadCount |-> 1,
                                     queryStatus |-> "new", lastContacted |-> h.ts,
                                     arrivals |-> 1])
    /\ inbound' = (inbound \ {h}) \cup
                  {[h EXCEPT !.pc = "message", !.doc = [NoDoc EXCEPT !.id = Len(contacts) + 1]]}
    /\ last' = "inbound_create"
    /\ obs' = NoObs
    /\ UNCHANGED <<messages, sends, arrived, dispatched>>
    /\ UNCHANGED <<readVars, sessionState>>

\* conversations.js:260-268  the contact exists: change the copy, then save() writes the
\* changed paths of the copy over the stored document
InboundSave(h) ==
    /\ h \in inbound /\ h.pc = "save"
    /\ contacts' = [contacts EXCEPT ![h.doc.id] =
                      [@ EXCEPT !.unreadCount = h.doc.unreadCount + 1,
                                !.queryStatus = IF h.doc.queryStatus \in {"resolved", "closed"}
                                                THEN "new" ELSE @,
                                !.lastContacted = h.ts,
                                !.arrivals = @ + 1]]
    /\ inbound' = (inbound \ {h}) \cup {[h EXCEPT !.pc = "message"]}
    /\ last' = "inbound_save"
    /\ obs' = NoObs
    /\ UNCHANGED <<messages, sends, arrived, dispatched>>
    /\ UNCHANGED <<readVars, sessionState>>

\* conversations.js:270-285  the inbound Message is created
InboundMessage(h) ==
    /\ h \in inbound /\ h.pc = "message"
    /\ messages' = Append(messages, [contactId |-> h.doc.id, phone |-> h.phone,
                                     direction |-> "inbound", message |-> h.body,
                                     ts |-> h.ts, status |-> "delivered",
                                     sentiment |-> AnalyzeSentiment(h.body).sentiment,
                                     sentimentScore |-> AnalyzeSentiment(h.body).score])
    /\ inbound' = inbound \ {h}
    /\ last' = "inbound_done"
    /\ obs' = NoObs
    /\ UNCHANGED <<contacts, sends, arrived, dispatched>>
    /\ UNCHANGED <<readVars, sessionState>>

\* a catch that also gives up the session
InboundFailReset(h) ==
    /\ h \in inbound /\ h.pc \in {"find", "create", "save", "message"}
    /\ inbound' = inbound \ {h}
    /\ last' = "inbound_failed"
    /\ obs' = [NoObs EXCEPT !.kind = h.pc]
    /\ isReady' = FALSE
    /\ UNCHANGED <<contacts, messages, sends, views, sla, verdict, renders,
                   arrived, dispatched>>
    /\ UNCHANGED <<whatsappClient, qrCodeData, isInitializing, retryCount, orphans,
                   timers, dpc, rpc, exhausted>>

\* conversations.js:286-288  a database call of the handler rejects: the catch logs it
\* and the event is dropped
InboundFail(h) ==
    /\ h \in inbound /\ h.pc \in {"find", "create", "save", "message"}
    /\ inbound' = inbound \ {h}
    /\ last' = "inbound_failed"
    /\ obs' = [NoObs EXCEPT !.kind = h.pc]
    /\ UNCHANGED <<contacts, messages, sends, arrived, dispatched>>
    /\ UNCHANGED <<readVars, sessionState>>

\* conversations.js:496  past the guard and the validation the transport's sendMessage
\* is called with the cleaned phone and the trimmed text, and awaited
SendStart(phone, text, contactId) ==
    /\ SendGuard
    /\ dispatched < MaxSends /\ Now < MaxEvents
    /\ dispatched' = dispatched + 1
    /\ sends' = sends \cup {[at |-> Now + 1, phone |-> phone, text |-> text,
                             contactId |-> contactId, pc |-> "dispatch", doc |-> NoDoc]}
    /\ last' = "send_start"
    /\ obs' = [NoObs EXCEPT !.sent = TRUE]
    /\ UNCHANGED <<contacts, messages, inbound, arrived>>
    /\ UNCHANGED <<readVars, sessionState>>

\* a validation that forgets the upper limit of 15 digits
RejectionNoMax(phone, message) ==
    IF ~SendGuard THEN "NotReady"
    ELSE IF phone = <<>> \/ message = <<>> THEN "Required"
    ELSE IF Len(Clean(phone)) = 0 THEN "EmptyPhone"
    ELSE IF Len(Clean(phone)) < 10 THEN "TooShort"
    ELSE IF Len(Trim(message)) = 0 THEN "EmptyMessage"
    ELSE "none"

\* conversations.js:444-490  the reason a request is turned down before the transport
\* is touched, or "none"
Rejection(phone, message) ==
    IF ~SendGuard THEN "NotReady"
    ELSE IF phone = <<>> \/ message = <<>> THEN "Required"
    ELSE IF Len(Clean(phone)) = 0 THEN "EmptyPhone"
    ELSE IF Len(Clean(phone)) < 10 THEN "TooShort"
    ELSE IF Len(Clean(phone)) > 15 THEN "TooLong"
    ELSE IF Len(Trim(message)) = 0 THEN "EmptyMessage"
    ELSE "none"

\* req.body.contactId: none (0), a contact that is stored or one that is not; it is
\* not read by a request that is turned down
RequestIds(phone, message) ==
    IF Rejection(phone, message) # "none" THEN {NoContact} ELSE 0..(MaxEvents - 1)

\* the same for the requests that reach the transport
AcceptedIds(phone, message) ==
    IF Rejection(phone, message) # "none" THEN {} ELSE RequestIds(phone, message)

\* conversations.js:442-496  POST /send { phone, message, contactId } up to the first await
SendRequest(phone, message, contactId) ==
    IF Rejection(phone, message) # "none"
    THEN /\ last' = "send_rejected"
         /\ obs' = [NoObs EXCEPT !.code = 400, !.kind = Rejection(phone, message)]
         /\ UNCHANGED storeVars
         /\ UNCHANGED <<readVars, sessionState>>
    ELSE SendStart(Clean(phone), Trim(message), contactId)

\* conversations.js:508-556  the textual signatures POST /send looks for in a send error
Signatures == {"not registered", "protocol error", "timeout", "rate limit"}

\* conversations.js:513-556  the response code for an error whose lower-cased text holds
\* the signatures sigs
ErrorCode(sigs) ==
    IF "not registered" \in sigs THEN 400
    ELSE IF "protocol error" \in sigs THEN 503
    ELSE IF "timeout" \in sigs THEN 504
    ELSE IF "rate limit" \in sigs THEN 429
    ELSE IF ~isReady \/ whatsappClient = NoClient THEN 400
    ELSE 500

\* a failure path that still writes the outbound Message
SendFailurePersist(h, sigs) ==
    /\ h \in sends /\ h.pc = "dispatch"
    /\ sends' = sends \ {h}
    /\ messages' = Append(messages, [contactId |-> NoContact, phone |-> h.phone,
                                     direction |-> "outbound", message |-> h.text,
                                     ts |-> Now, status |-> "sent",
                                     sentiment |-> "neutral", sentimentScore |-> 5])
    /\ last' = "send_failed"
    /\ obs' = [NoObs EXCEPT !.code = ErrorCode(sigs)]
    /\ UNCHANGED <<contacts, inbound, arrived, dispatched>>
    /\ UNCHANGED <<readVars, sessionState>>

\* conversations.js:498-556  sendMessage rejects: the request is answered with the code
\* of the error and the handler returns
SendFailure(h, sigs) ==
    /\ h \in sends /\ h.pc = "dispatch"
    /\ sends' = sends \ {h}
    /\ last' = "send_failed"
    /\ obs' = [NoObs EXCEPT !.code = ErrorCode(sigs)]
    /\ UNCHANGED <<contacts, messages, inbound, arrived, dispatched>>
    /\ UNCHANGED <<readVars, sessionState>>

\* conversations.js:496-564  sendMessage settles: it resolves and the contact lookup
\* starts, or it rejects
SendDispatched(h, ok) ==
    IF ok
    THEN /\ h \in sends /\ h.pc = "dispatch"
         /\ sends' = (sends \ {h}) \cup {[h EXCEPT !.pc = "lookup"]}
         /\ last' = "send_dispatched"
         /\ obs' = NoObs
         /\ UNCHANGED <<contacts, messages, inbound, arrived, dispatched>>
         /\ UNCHANGED <<readVars, sessionState>>
    ELSE \E sigs \in SUBSET Signatures : SendFailure(h, sigs)

\* conversations.js:558-564  findById(contactId) or findOne({ phone }) answers
SendLookup(h) ==
    /\ h \in sends /\ h.pc = "lookup"
    /\ LET id == IF h.contactId # NoContact THEN FindById(h.contactId) ELSE FindOne(h.phone) IN
       sends' = (sends \ {h}) \cup
                {[h EXCEPT !.pc = IF id = NoContact THEN "contact" ELSE "message",
                           !.doc = DocOf(id)]}
    /\ last' = "send_lookup"
    /\ obs' = NoObs
    /\ UNCHANGED <<contacts, messages, inbound, arrived, dispatched>>
    /\ UNCHANGED <<readVars, sessionState>>

\* conversations.js:566-577  the contact exists: the outbound Message is created
SendMessage(h) ==
    /\ h \in sends /\ h.pc = "message"
    /\ messages' = Append(messages, [contactId |-> h.doc.id, phone |-> h.phone,
                                     direction |-> "outbound", message |-> h.text,
                                     ts |-> Now, status |-> "sent",
                                     sentiment |-> "neutral", sentimentScore |-> 5])
    /\ sends' = (sends \ {h}) \cup {[h EXCEPT !.pc = "update"]}
    /\ last' = "send_message"
    /\ obs' = NoObs
    /\ UNCHANGED <<contacts, inbound, arrived, dispatched>>
    /\ UNCHANGED <<readVars, sessionState>>

\* conversations.js:579-589, 602-606  findByIdAndUpdate sets lastContacted, and
\* queryStatus when the copy read earlier said new; then the request is answered
SendUpdate(h) ==
    /\ h \in sends /\ h.pc = "update"
    /\ contacts' = [contacts EXCEPT ![h.doc.id] =
                      [@ EXCEPT !.lastContacted = Now,
                                !.queryStatus = IF h.doc.queryStatus = "new"
                                                THEN "in-progress" ELSE @]]
    /\ sends' = sends \ {h}
    /\ last' = "send_done"
    /\ obs' = [NoObs EXCEPT !.code = 200]
    /\ UNCHANGED <<messages, inbound, arrived, dispatched>>
    /\ UNCHANGED <<readVars, sessionState>>

\* conversations.js:590-597  no contact: one is created for the phone
SendContact(h) ==
    /\ h \in sends /\ h.pc = "contact"
    /\ contacts' = ContactCreate([name |-> CustomerName \o <<" ">> \o
                                                 SubSeq(h.phone, Len(h.phone) - 3, Len(h.phone)),
                                     phone |-> h.phone, unreadCount |-> 0,
                                     queryStatus |-> "new", lastContacted |-> 0,
                                     arrivals |-> 0])
    /\ sends' = (sends \ {h}) \cup
                {[h EXCEPT !.pc = "message_new", !.doc = [NoDoc EXCEPT !.id = Len(contacts) + 1]]}
    /\ last' = "send_contact"
    /\ obs' = NoObs
    /\ UNCHANGED <<messages, inbound, arrived, dispatched>>
    /\ UNCHANGED <<readVars, sessionState>>

\* conversations.js:598-606  the Message of the new contact; then the request is answered
SendMessageNew(h) ==
    /\ h \in sends /\ h.pc = "message_new"
    /\ messages' = Append(messages, [contactId |-> h.doc.id, phone |-> h.phone,
                                     direction |-> "outbound", message |-> h.text,
                                     ts |-> Now, status |-> "sent",
                                     sentiment |-> "neutral", sentimentScore |-> 5])
    /\ sends' = sends \ {h}
    /\ last' = "send_done"
    /\ obs' = [NoObs EXCEPT !.code = 200]
    /\ UNCHANGED <<contacts, inbound, arrived, dispatched>>
    /\ UNCHANGED <<readVars, sessionState>>

\* conversations.js:558-600, 607-623  a database call of the send's persistence rejects:
\* the outer catch answers 500
SendPersistFail(h) ==
    /\ h \in sends /\ h.pc \in {"lookup", "message", "update", "contact", "message_new"}
    /\ sends' = sends \ {h}
    /\ last' = "send_error"
    /\ obs' = [NoObs EXCEPT !.code = 500]
    /\ UNCHANGED <<contacts, messages, inbound, arrived, dispatched>>
    /\ UNCHANGED <<readVars, sessionState>>

\* contacts.js:112-128  POST /:id/read: one findByIdAndUpdate sets unreadCount to 0
\* (arrivals counts the inbound events since then); 404 when no contact has the id
MarkRead(id) ==
    /\ contacts' = IF id \in ContactIds
                   THEN [contacts EXCEPT ![id] = [@ EXCEPT !.unreadCount = 0, !.arrivals = 0]]
                   ELSE contacts
    /\ last' = "mark_read"
    /\ obs' = [NoObs EXCEPT !.code = IF id \in ContactIds THEN 200 ELSE 404]
    /\ UNCHANGED <<messages, inbound, sends, arrived, dispatched>>
    /\ UNCHANGED <<readVars, sessionState>>

\* ------------------------------------------------------- the conversation list
\* the phone of the messages that are posted and listed
PostPhones == {p \in Phones : Len(p) = 10}
\* an _id no Contact ever has
DanglingId == MaxEvents + 1
\* req.body.contactId of a posted message: none, a stored contact, or no contact's _id
PostIds == {NoContact} \cup ContactIds \cup {DanglingId}

\* part_003:82-98  POST /api/messages with a valid body: the Message is saved with the
\* schema defaults (timestamp now, status sent, sentiment neutral 0.5), whatever its
\* contactId names, and a contact it names gets lastContacted = now
PostMessage(contactId, phone, direction, message) ==
    /\ Len(messages) < MaxMessages
    /\ messages' = Append(messages, [contactId |-> contactId, phone |-> phone,
                                     direction |-> direction, message |-> message,
                                     ts |-> Now, status |-> "sent",
                                     sentiment |-> "neutral", sentimentScore |-> 5])
    /\ contacts' = IF contactId \in ContactIds
                   THEN [contacts EXCEPT ![contactId] = [@ EXCEPT !.lastContacted = Now]]
                   ELSE contacts
    /\ last' = "post_message"
    /\ obs' = [NoObs EXCEPT !.code = 201]
    /\ UNCHANGED <<inbound, sends, views, sla, verdict, renders,
                   arrived, dispatched>>
    /\ UNCHANGED sessionState

\* conversations.js:46-59  $group by contactId (a Message without one falls in the
\* group of null, NoContact here)
GroupIds == {messages[i].contactId : i \in DOMAIN messages}
InGroup(id) == {i \in DOMAIN messages : messages[i].contactId = id}
\* $max of timestamp over the Messages I
MaxTimestamp(I) ==
    CHOOSE t \in {messages[i].ts : i \in I} : \A i \in I : messages[i].ts <= t
Group(id) ==
    [id |-> id,
     lastMessage  |-> MaxTimestamp(InGroup(id)),
     messageCount |-> Cardinality(InGroup(id)),
     unreadCount  |-> Cardinality({i \in InGroup(id) : messages[i].direction = "inbound"})]
\* conversations.js:60  $sort { lastMessage: -1 }: any order of the groups that is
\* descending in lastMessage (the order of equal keys is not fixed)
SortedDesc(S) ==
    {q \in [1..Cardinality(S) -> S] :
        /\ \A a, b \in 1..Cardinality(S) : a # b => q[a] # q[b]
        /\ \A a \in 1..(Cardinality(S) - 1) : q[a].lastMessage >= q[a + 1].lastMessage}

\* conversations.js:66-67  Message.findOne({ contactId }).sort({ timestamp: -1 }): the
\* Message of the group with the greatest timestamp (the oldest stored one of several),
\* or none (0)
LastOf(id) ==
    IF InGroup(id) = {} THEN 0
    ELSE CHOOSE i \in InGroup(id) :
            /\ messages[i].ts = MaxTimestamp(InGroup(id))
            /\ \A j \in InGroup(id) : messages[j].ts = messages[i].ts => i <= j

\* conversations.js:77-78  the keyword lists of the list view
ListNegativeWords ==
    { <<"b","a","d">>, <<"t","e","r","r","i","b","l","e">>, <<"w","o","r","s","t">>,
      <<"a","n","g","r","y">>, <<"f","r","u","s","t","r","a","t","e","d">>,
      <<"d","i","s","a","p","p","o","i","n","t","e","d">>, <<"h","a","t","e">>,
      <<"p","r","o","b","l","e","m">>, <<"i","s","s","u","e">>, <<"e","r","r","o","r">> }
ListPositiveWords ==
    { <<"t","h","a","n","k">>, <<"g","r","e","a","t">>, <<"g","o","o","d">>,
      <<"e","x","c","e","l","l","e","n","t">>, <<"h","a","p","p","y">>,
      <<"s","a","t","i","s","f","i","e","d">>, <<"l","o","v","e">>,
      <<"p","e","r","f","e","c","t">> }

\* conversations.js:74-84  the sentiment of an entry, from its last Message i (0: none)
ListSentiment(i) ==
    IF i = 0 \/ messages[i].direction # "inbound" THEN "neutral"
    ELSE LET lowerMsg == ToLowerCase(messages[i].message)
             negCount == Cardinality({w \in ListNegativeWords : Includes(lowerMsg, w)})
             posCount == Cardinality({w \in ListPositiveWords : Includes(lowerMsg, w)})
         IN  IF negCount > posCount THEN "negative"
             ELSE IF posCount > negCount THEN "positive"
             ELSE "neutral"

NoMessage == [message |-> <<>>, timestamp |-> 0, direction |-> "none"]

\* conversations.js:64-98  one entry of the response, from the group conv of the
\* aggregate and the collections as they are when the lookups answer
Entry(conv) ==
    [contact      |-> FindById(conv.id),
     lastMessage  |-> IF LastOf(conv.id) = 0 THEN NoMessage
                      ELSE [message   |-> messages[LastOf(conv.id)].message,
                            timestamp |-> messages[LastOf(conv.id)].ts,
                            direction |-> messages[LastOf(conv.id)].direction],
     messageCount |-> conv.messageCount,
     unreadCount  |-> conv.unreadCount,
     sentiment    |-> ListSentiment(LastOf(conv.id))]

\* conversations.js:44-61  GET /: the aggregate answers with the sorted groups
ViewAggregate(order) ==
    /\ Cardinality(views) < MaxViews
    /\ order \in SortedDesc({Group(id) : id \in GroupIds})
    /\ views' = views \cup {[groups |-> order]}
    /\ last' = "list_aggregate"
    /\ obs' = NoObs
    /\ UNCHANGED <<contacts, messages, inbound, sends, sla, verdict, renders,
                   arrived, dispatched>>
    /\ UNCHANGED sessionState

\* conversations.js:63-102  the lookups of every group answer and the list is sent
ViewPopulate(v) ==
    /\ v \in views
    /\ views' = views \ {v}
    /\ last' = "list"
    /\ obs' = [NoObs EXCEPT !.code = 200,
                            !.list = [k \in DOMAIN v.groups |-> Entry(v.groups[k])]]
    /\ UNCHANGED <<contacts, messages, inbound, sends, sla, verdict, renders,
                   arrived, dispatched>>
    /\ UNCHANGED sessionState

\* ------------------------------------------------------- pairing code and status
\* conversations.js:361-384  GET /qr?format=..., up to its response or to the await of
\* qrcode.toDataURL(qrCodeData); renderer: the qrcode package was loaded (115-120)
GetQr(format, renderer) ==
    /\ IF qrCodeData # NoQr /\ format = "image" /\ renderer
       THEN /\ BagCardinality(renders) < MaxRenders
            /\ renders' = Add(renders, qrCodeData)
            /\ last' = "qr_render"
            /\ obs' = NoObs
       ELSE /\ renders' = renders
            /\ last' = "qr_response"
            /\ obs' = [NoObs EXCEPT !.code = 200,
                                    !.kind = IF qrCodeData # NoQr THEN "qr:" \o qrCodeData
                                             ELSE IF isReady THEN "connected"
                                             ELSE "initializing"]
    /\ UNCHANGED <<contacts, messages, inbound, sends, views, sla, verdict,
                   arrived, dispatched>>
    /\ UNCHANGED sessionState

\* conversations.js:365-376  toDataURL answers: the image, or on a failure the catch
\* sends qrCodeData as it is by then
GetQrRendered(code, ok) ==
    /\ BagIn(code, renders)
    /\ renders' = Remove(renders, code)
    /\ last' = "qr_response"
    /\ obs' = [NoObs EXCEPT !.code = 200,
                            !.kind = IF ok THEN "qrImage:" \o code ELSE "qr:" \o qrCodeData]
    /\ UNCHANGED <<contacts, messages, inbound, sends, views, sla, verdict,
                   arrived, dispatched>>
    /\ UNCHANGED sessionState

\* conversations.js:387-392  GET /status
GetStatus ==
    /\ last' = "status"
    /\ obs' = [NoObs EXCEPT !.code = 200, !.connected = isReady,
                            !.hasQR = (qrCodeData # NoQr)]
    /\ UNCHANGED storeVars
    /\ UNCHANGED sessionState

\* ------------------------------------------------------- the classifier alone
\* conversations.js:271  analyzeSentiment is called with a text
Classify ==
    /\ last # "classified"
    /\ verdict' = [verdict EXCEPT !.result = AnalyzeSentiment(verdict.text)]
    /\ last' = "classified"
    /\ obs' = NoObs
    /\ UNCHANGED <<contacts, messages, inbound, sends, views, sla, renders,
                   arrived, dispatched>>
    /\ UNCHANGED sessionState

\* ------------------------------------------------------- the SLA window
\* a window that is overdue only after the threshold has passed
CalculateSLATimeLate(lastMessageTime, now, slaHours) ==
    IF lastMessageTime = NoTime THEN NoWindow
    ELSE LET diffMs        == now - lastMessageTime
             diffMins      == diffMs \div MsPerMinute
             remainingMins == (slaHours * 60) - diffMins
             abs           == IF remainingMins < 0 THEN 0 - remainingMins ELSE remainingMins
         IN  IF remainingMins < 0
             THEN [overdue |-> TRUE, minutes |-> abs,
                   text |-> ToString(abs) \o "m overdue", urgent |-> TRUE]
             ELSE IF remainingMins <= 30
             THEN [overdue |-> FALSE, minutes |-> remainingMins,
                   text |-> ToString(remainingMins) \o "m remaining", urgent |-> TRUE]
             ELSE [overdue |-> FALSE, minutes |-> remainingMins,
                   text |-> ToString(remainingMins \div 60) \o "h "
                              \o ToString(remainingMins % 60) \o "m remaining",
                   urgent |-> FALSE]

\* conversations.js:7-41  calculateSLATime(lastMessageTime, slaHours) called at time now
\* (times in milliseconds; Math.floor is \div; the template strings are built with
\* ToString and \o; null is NoWindow)
CalculateSLATime(lastMessageTime, now, slaHours) ==
    IF lastMessageTime = NoTime THEN NoWindow
    ELSE LET diffMs        == now - lastMessageTime
             diffMins      == diffMs \div MsPerMinute
             remainingMins == (slaHours * 60) - diffMins
             abs           == IF remainingMins < 0 THEN 0 - remainingMins ELSE remainingMins
         IN  IF remainingMins <= 0
             THEN [overdue |-> TRUE, minutes |-> abs,
                   text |-> ToString(abs) \o "m overdue", urgent |-> TRUE]
             ELSE IF remainingMins <= 30
             THEN [overdue |-> FALSE, minutes |-> remainingMins,
                   text |-> ToString(remainingMins) \o "m remaining", urgent |-> TRUE]
             ELSE [overdue |-> FALSE, minutes |-> remainingMins,
                   text |-> ToString(remainingMins \div 60) \o "h "
                              \o ToString(remainingMins % 60) \o "m remaining",
                   urgent |-> FALSE]

\* contact.lastContacted: not set, or a whole minute up to one minute after MaxElapsed
LastContactedTimes == {NoTime} \cup {k * MsPerMinute : k \in 0..(MaxElapsed + 1)}
\* new Date() of the call: MaxElapsed minutes, or half a minute later
ClockTimes == {MaxElapsed * MsPerMinute, MaxElapsed * MsPerMinute + 30000}

\* conversations.js:69-73  GET / computes the SLA of an entry with the default threshold
SlaCompute ==
    /\ last # "sla"
    /\ sla' = [sla EXCEPT !.window = CalculateSLATime(sla.lastMessageTime, sla.now,
                                                      DefaultSlaHours)]
    /\ last' = "sla"
    /\ obs' = NoObs
    /\ UNCHANGED <<contacts, messages, inbound, sends, views, verdict, renders,
                   arrived, dispatched>>
    /\ UNCHANGED sessionState

\* ------------------------------------------------------- specification
TimerStep ==
    \E t \in Timers : RetryFire(t) \/ CleanupFire(t) \/ StartFire(t)

HandlerStep ==
    \E e \in Outcomes :
        DisconnectAfterLogout(e) \/ DisconnectAfterDestroy(e) \/ ReconnectAfterDestroy(e)

Next ==
    \/ \E who \in Who : OnQr(who)
    \/ \E who \in Who : OnReady(who)
    \/ \E who \in Who : OnAuthFailure(who)
    \/ \E who \in Who : OnDisconnected(who)
    \/ \E who \in Who, e \in ErrorKinds : OnError(who, e)
    \/ \E who \in Who, e \in ErrorKinds : InitFail(who, e)
    \/ \E t \in Timers : RetryFire(t)
    \/ \E t \in Timers : CleanupFire(t)
    \/ \E t \in Timers : StartFire(t)
    \/ DisconnectCall
    \/ \E e \in Outcomes : DisconnectAfterLogout(e)
    \/ \E e \in Outcomes : DisconnectAfterDestroy(e)
    \/ ReconnectCall
    \/ \E e \in Outcomes : ReconnectAfterDestroy(e)
    \/ SendCall

Spec == Init /\ [][Next]_vars

\* the store behind a session that became ready: inbound events and sends
StoreNext ==
    \/ \E who \in Who : OnReady(who)
    \/ \E who \in Who, phone \in Phones, body \in PlainBodies :
          arrived < MaxStoreInbound /\ OnMessage(who, phone, body)
    \/ \E h \in inbound : InboundFind(h)
    \/ \E h \in inbound : InboundName(h, FALSE)
    \/ \E h \in inbound : InboundCreate(h)
    \/ \E h \in inbound : InboundSave(h)
    \/ \E h \in inbound : InboundMessage(h)
    \/ \E phone \in RawPhones, message \in RawMessages :
          \E id \in AcceptedIds(phone, message) :
             dispatched < MaxStoreSends /\ SendRequest(phone, message, id)
    \/ \E h \in sends, ok \in BOOLEAN : SendDispatched(h, ok)
    \/ \E h \in sends : SendLookup(h)
    \/ \E h \in sends : SendMessage(h)
    \/ \E h \in sends : SendUpdate(h)
    \/ \E h \in sends : SendContact(h)
    \/ \E h \in sends : SendMessageNew(h)
    \/ \E h \in sends : SendPersistFail(h)

StoreSpec == Init /\ [][StoreNext]_vars

\* contacts.js:91  the statuses PATCH /:id/status accepts
QueryStatuses == {"new", "in-progress", "resolved", "closed"}

\* contacts.js:88-109  PATCH /:id/status { status }: findByIdAndUpdate sets queryStatus
PatchStatus(id, status) ==
    /\ contacts' = IF status \in QueryStatuses /\ id \in ContactIds
                   THEN [contacts EXCEPT ![id] = [@ EXCEPT !.queryStatus = status]]
                   ELSE contacts
    /\ last' = "patch_status"
    /\ obs' = [NoObs EXCEPT !.code = IF status \notin QueryStatuses THEN 400
                                     ELSE IF id \in ContactIds THEN 200 ELSE 404]
    /\ UNCHANGED <<messages, inbound, sends, arrived, dispatched>>
    /\ UNCHANGED <<readVars, sessionState>>

\* inbound ingestion and the mark-read route
IngestNext ==
    \/ \E who \in Who : OnReady(who)
    \/ \E who \in Who, phone \in Phones, body \in PlainBodies : OnMessage(who, phone, body)
    \/ \E h \in inbound : InboundFind(h)
    \/ \E h \in inbound : InboundName(h, FALSE)
    \/ \E h \in inbound : InboundCreate(h)
    \/ \E h \in inbound : InboundSave(h)
    \/ \E h \in inbound : InboundMessage(h)
    \/ \E id \in 1..MaxEvents : MarkRead(id)

IngestSpec == Init /\ [][IngestNext]_vars

\* inbound ingestion of one sender while an agent changes the status and marks read
ReopenNext ==
    \/ \E who \in Who : OnReady(who)
    \/ \E who \in Who, phone \in Phones, body \in PlainBodies :
          arrived < MaxArrivals /\ OnMessage(who, phone, body)
    \/ \E h \in inbound : InboundFind(h)
    \/ \E h \in inbound : InboundName(h, FALSE)
    \/ \E h \in inbound : InboundCreate(h)
    \/ \E h \in inbound : InboundSave(h)
    \/ \E h \in inbound : InboundMessage(h)
    \/ \E id \in 1..MaxArrivals : MarkRead(id)
    \/ \E id \in 1..MaxArrivals, status \in QueryStatuses \cup {"unknown"} :
          PatchStatus(id, status)

ReopenSpec == Init /\ [][ReopenNext]_vars

\* a send to a sender whose event is ingested while an agent changes the status
ReplyNext ==
    \/ \E who \in Who : OnReady(who)
    \/ \E who \in Who, phone \in Phones, body \in PlainBodies :
          arrived < MaxReplyArrivals /\ OnMessage(who, phone, body)
    \/ \E h \in inbound : InboundFind(h)
    \/ \E h \in inbound : InboundName(h, FALSE)
    \/ \E h \in inbound : InboundCreate(h)
    \/ \E h \in inbound : InboundSave(h)
    \/ \E h \in inbound : InboundMessage(h)
    \/ \E phone \in RawPhones, message \in RawMessages :
          \E id \in AcceptedIds(phone, message) :
             dispatched < MaxReplySends /\ SendRequest(phone, message, id)
    \/ \E h \in sends : SendDispatched(h, TRUE)
    \/ \E h \in sends : SendLookup(h)
    \/ \E h \in sends : SendMessage(h)
    \/ \E h \in sends : SendUpdate(h)
    \/ \E h \in sends : SendContact(h)
    \/ \E h \in sends : SendMessageNew(h)
    \/ \E id \in 1..(MaxReplyArrivals + MaxReplySends), status \in QueryStatuses :
          PatchStatus(id, status)

ReplySpec == Init /\ [][ReplyNext]_vars

\* the pairing and status queries while the clients emit their events
QrNext ==
    \/ \E who \in Who : OnQr(who)
    \/ \E who \in Who : OnReady(who)
    \/ \E who \in Who : OnAuthFailure(who)
    \/ \E who \in Who : OnDisconnected(who)
    \/ \E who \in Who, e \in ErrorKinds : OnError(who, e)
    \/ \E who \in Who, e \in ErrorKinds : InitFail(who, e)
    \/ \E t \in Timers : RetryFire(t)
    \/ \E t \in Timers : CleanupFire(t)
    \/ \E format \in {"image", "none"}, renderer \in BOOLEAN : GetQr(format, renderer)
    \/ \E code \in {QrCode}, ok \in BOOLEAN : GetQrRendered(code, ok)
    \/ GetStatus

QrSpec == Init /\ [][QrNext]_vars

\* analyzeSentiment alone, on every text drawn at the start
ClassifyInit ==
    /\ InitBase
    /\ sla = NoSla
    /\ verdict \in {[text |-> t, result |-> NoVerdict.result] : t \in Texts}

ClassifyNext == Classify

ClassifySpec == ClassifyInit /\ [][ClassifyNext]_vars

\* calculateSLATime alone, on every lastContacted and clock drawn at the start
SlaInit ==
    /\ InitBase
    /\ verdict = NoVerdict
    /\ sla \in {[lastMessageTime |-> t, now |-> n, window |-> NoWindow] :
                   t \in LastContactedTimes, n \in ClockTimes}

SlaNext == SlaCompute

SlaSpec == SlaInit /\ [][SlaNext]_vars

\* the conversation list, read while messages arrive, are posted and are marked read
ViewNext ==
    \/ \E who \in Who : OnReady(who)
    \/ \E who \in Who, phone \in PostPhones, body \in Bodies :
          arrived < MaxViewArrivals /\ OnMessage(who, phone, body)
    \/ \E h \in inbound : InboundFind(h)
    \/ \E h \in inbound : InboundName(h, FALSE)
    \/ \E h \in inbound : InboundCreate(h)
    \/ \E h \in inbound : InboundMessage(h)
    \/ \E id \in 1..MaxViewArrivals : MarkRead(id)
    \/ \E id \in PostIds, phone \in PostPhones,
          direction \in {"inbound", "outbound"}, message \in PlainBodies :
            PostMessage(id, phone, direction, message)
    \/ \E order \in SortedDesc({Group(id) : id \in GroupIds}) : ViewAggregate(order)
    \/ \E v \in views : ViewPopulate(v)

ViewSpec == Init /\ [][ViewNext]_vars

\* inbound ingestion with every body, name lookup outcome and database failure
ArrivalNext ==
    \/ \E who \in Who : OnReady(who)
    \/ \E who \in Who, phone \in Phones, body \in Bodies :
          arrived < MaxArrivals /\ OnMessage(who, phone, body)
    \/ \E h \in inbound : InboundFind(h)
    \/ \E h \in inbound, found \in BOOLEAN : InboundName(h, found)
    \/ \E h \in inbound : InboundCreate(h)
    \/ \E h \in inbound : InboundSave(h)
    \/ \E h \in inbound : InboundMessage(h)
    \/ \E h \in inbound : InboundFail(h)

ArrivalSpec == Init /\ [][ArrivalNext]_vars

\* POST /send alone, with every request input, those that are turned down included
RequestNext ==
    \/ \E who \in Who : OnReady(who)
    \/ \E who \in Who : OnDisconnected(who)
    \/ \E phone \in RawPhones, message \in RawMessages :
          \E id \in RequestIds(phone, message) : SendRequest(phone, message, id)
    \/ \E h \in sends, ok \in BOOLEAN : SendDispatched(h, ok)
    \/ \E h \in sends : SendLookup(h)
    \/ \E h \in sends : SendMessage(h)
    \/ \E h \in sends : SendUpdate(h)
    \/ \E h \in sends : SendContact(h)
    \/ \E h \in sends : SendMessageNew(h)
    \/ \E h \in sends : SendPersistFail(h)

RequestSpec == Init /\ [][RequestNext]_vars

\* the event loop runs every due timer callback and resumes every handler whose
\* awaited promise has settled; commands and transport events are under no obligation
FairSpec == Spec /\ WF_vars(TimerStep) /\ WF_vars(HandlerStep)

\* ================================================================ claims
\* session states as the claims name them
StateInitializing == isInitializing
StateReady        == isReady /\ whatsappClient # NoClient
\* the transport's view: the handle names a client that is ready, and no retry waits
SessionReady      == whatsappClient = "ready" /\ ~RetryPending
StateIdle         == whatsappClient = NoClient /\ ~isReady /\ ~isInitializing
CommandSteps      == {"disconnect_call", "disconnect_logout", "disconnect_done",
                      "reconnect_call", "reconnect_done"}

\* C1: a retry timer that was pending when Stop/Reconnect tore the session down never
\* creates a transport client, destroys a client or changes retryCount when it fires.
C1_StaleRetryInert ==
    [][\A t \in Timers :
          (t.stale /\ RetryFire(t))
              => /\ whatsappClient' = whatsappClient
                 /\ orphans' = orphans
                 /\ retryCount' = retryCount]_vars

\* C2: a send request made while the session is not Ready is answered 400 and the
\* transport's send is not invoked.
C2_SendNeedsReady ==
    (last = "send" /\ ~SessionReady) => (obs.code = 400 /\ ~obs.sent)

\* C3: with no handler in flight, every contact's unreadCount is its initial value plus
\* the number of inbound events handled for it (arrivals counts exactly those).
C3_NoLostIncrement ==
    (inbound = {} /\ sends = {})
        => \A i \in ContactIds : contacts[i].unreadCount = contacts[i].arrivals

\* C4: at most one transport client is created and not yet destroyed or disconnected.
C4_AtMostOneSession == LiveCount <= 1

\* C5: from a fresh Start (retryCount = 0) the consecutive initialization failures
\* schedule retries of 1000, 2000 and 4000 ms, each retry keeping the count, and the
\* fourth failure leaves the session Failed with no retry scheduled.
C5_BackoffSequence ==
    /\ [][(last' = "start" /\ obs'.created) => retryCount' = 0]_vars
    /\ [][(last' = "retry_fire") => retryCount' = retryCount]_vars
    /\ [][(last' = "init_fail") =>
            /\ (retryCount = 0 => obs'.delay = 1000 /\ retryCount' = 1)
            /\ (retryCount = 1 => obs'.delay = 2000 /\ retryCount' = 2)
            /\ (retryCount = 2 => obs'.delay = 4000 /\ retryCount' = 3)
            /\ (retryCount < 3 => \E t \in BagToSet(timers') :
                                     t.kind = "retry" /\ timers' = Add(timers, t))
            /\ (retryCount = 3 => /\ obs'.delay = 0
                                  /\ timers' = timers
                                  /\ whatsappClient' = NoClient
                                  /\ ~isInitializing'
                                  /\ retryCount' = 3)]_vars

C5_Witness ==
    /\ last = "init_fail"
    /\ exhausted
    /\ retryCount = MAX_RETRIES
    /\ whatsappClient = NoClient
    /\ ~isInitializing
    /\ timers = EmptyBag

\* C6: once retries are exhausted the session stays Failed (no client, not
\* initializing) until a command is issued, and the Start of a Reconnect from there
\* leads to Initializing with retryCount = 0.
C6_FailedIsTerminal ==
    /\ [][(exhausted /\ exhausted') => (whatsappClient' = NoClient /\ ~isInitializing')]_vars
    /\ [][(last' = "start" /\ obs'.created)
            => (whatsappClient' = "starting" /\ isInitializing' /\ retryCount' = 0)]_vars

\* C7: after the handle's Ready client emits disconnected with retries remaining, the
\* session re-enters Initializing by itself (or a command intervenes first).
C7_AutoReinit ==
    (last = "disconnected" /\ obs.who = "handle" /\ retryCount < MAX_RETRIES)
        ~> (isInitializing \/ last \in CommandSteps)

\* C8: an authentication failure of the handle's client leaves the session Failed: not
\* connected, and in a state where Start is accepted (no client, not initializing).
C8_AuthFailureFails ==
    (last = "auth_failure" /\ obs.who = "handle")
        => (~isReady /\ whatsappClient = NoClient /\ ~isInitializing)

\* C9: Start while the session is Initializing or Ready changes nothing: handle, flags,
\* pairing code, retryCount and the transport's clients stay as they are.
C9_StartIdempotent ==
    [][(last' = "start" /\ (StateInitializing \/ StateReady))
          => (/\ UNCHANGED <<whatsappClient, qrCodeData, isReady, isInitializing,
                              retryCount, orphans>>
              /\ ~obs'.created)]_vars

C9_Witness ==
    /\ last = "start"
    /\ ~obs.created
    /\ StateReady

\* C10: the disconnect command always ends Idle with the pairing code cleared and
\* retryCount = 0, and answers success, however logout and destroy settle.
C10_DisconnectEndsIdle ==
    (last = "disconnect_done")
        => (obs.code = 200 /\ StateIdle /\ qrCodeData = NoQr /\ retryCount = 0)

\* C11: when the settle timer of a Disconnect or Reconnect command has fired, the session
\* is Initializing with a client that is starting up and retryCount = 0.
C11_SettleStartsFresh ==
    (last = "start")
        => (whatsappClient = "starting" /\ isInitializing /\ retryCount = 0)

\* C12: an EBUSY error event changes no session state and schedules nothing; a protocol
\* (or context-destroyed) error event takes the retry path: isInitializing is cleared and
\* either a retry is counted and scheduled or, with the budget used up, the handle is dropped.
C12_ErrorClasses ==
    [][\A who \in Who :
         /\ OnError(who, "EBUSY")
              => UNCHANGED <<whatsappClient, qrCodeData, isReady, isInitializing,
                             retryCount, orphans, timers, exhausted>>
         /\ OnError(who, "Protocol error")
              => /\ ~isInitializing'
                 /\ UNCHANGED <<isReady, qrCodeData>>
                 /\ IF retryCount < MAX_RETRIES
                    THEN /\ retryCount' = retryCount + 1
                         /\ timers' = Add(timers, RetryTimer)
                         /\ obs'.delay = BackoffDelay(retryCount')
                    ELSE /\ whatsappClient' = NoClient
                         /\ UNCHANGED <<retryCount, timers>>]_vars

\* an EBUSY error event has been handled in a ready session, outside initialization
C12_Witness ==
    last = "error" /\ obs.kind = "EBUSY" /\ whatsappClient = "ready" /\ isReady /\ ~isInitializing

\* C13: every ready event leaves retryCount = 0 (and the ready flag set), and a failure
\* handled while retryCount = 0 schedules its retry with the 1000 ms delay as attempt 1,
\* so all MAX_RETRIES attempts are available again.
C13_ReadyResetsBudget ==
    /\ [][(last' = "ready") => (retryCount' = 0 /\ isReady')]_vars
    /\ [][(retryCount = 0 /\ last' \in {"error", "init_fail"} /\ retryCount' # retryCount)
            => (retryCount' = 1 /\ obs'.delay = BackoffBase
                /\ timers' = Add(timers, RetryTimer))]_vars

\* a ready event arrived while a scheduled retry was still pending
C13_Witness ==
    last = "ready" /\ retryCount = 0 /\ isReady /\ BagIn(RetryTimer, timers)

\* C14: a send whose dispatch succeeded is answered with the success response, whatever
\* happens to the persistence steps after it.
C14_PersistenceBestEffort ==
    (last \in {"send_done", "send_error"}) => (obs.code = 200)

\* C15: every stored Message with a contactId references a stored Contact whose phone is
\* the Message's phone.
C15_MessageMatchesContact ==
    \A i \in DOMAIN messages :
        messages[i].contactId # NoContact
            => /\ messages[i].contactId \in ContactIds
               /\ contacts[messages[i].contactId].phone = messages[i].phone

\* C16: unreadCount is never negative, and no step other than mark-read makes the stored
\* unreadCount of a contact smaller.
C16_UnreadMonotone ==
    [][\A i \in ContactIds :
          /\ contacts'[i].unreadCount >= 0
          /\ (last' # "mark_read") => contacts'[i].unreadCount >= contacts[i].unreadCount]_vars

\* the requests the validation rules turn down: no digit, fewer than 10 or more than 15
\* digits, or a message with nothing but blanks
DigitCount(phone) == Cardinality({i \in DOMAIN phone : phone[i] \in DigitChars})
Invalid(phone, message) ==
    \/ DigitCount(phone) < 10
    \/ DigitCount(phone) > 15
    \/ \A i \in DOMAIN message : message[i] = " "

InvalidRequests == {r \in RawPhones \X RawMessages : Invalid(r[1], r[2])}

\* C17: a send request that fails validation is answered 400 without the transport being
\* called and without any Contact, Message or pending send being created or changed.
C17_ValidationFirst ==
    [][(last' \in {"send_rejected", "send_start"})
          => \A r \in InvalidRequests : \A id \in RequestIds(r[1], r[2]) :
                SendRequest(r[1], r[2], id)
                    => /\ last' = "send_rejected"
                       /\ obs'.code = 400 /\ ~obs'.sent
                       /\ UNCHANGED <<contacts, messages, sends, dispatched>>]_vars

\* a request with 16 digits was turned down by a ready session that has a contact stored
C17_Witness ==
    last = "send_rejected" /\ obs.kind = "TooLong" /\ obs.code = 400 /\ contacts # <<>>

\* C18: when the dispatch of a send fails, whatever the error, no Message and no Contact
\* is written and the request does nothing further.
C18_FailedSendStoresNothing ==
    [][\A h \in sends, sigs \in SUBSET Signatures :
          SendFailure(h, sigs)
              => /\ UNCHANGED <<contacts, messages>>
                 /\ sends' = sends \ {h}]_vars

\* a dispatch failed while a contact and a message were stored
C18_Witness ==
    last = "send_failed" /\ contacts # <<>> /\ messages # <<>>

\* the response code of each failure class
ClassCode(sigs) ==
    IF sigs = {"not registered"} THEN 400
    ELSE IF sigs = {"protocol error"} THEN 503
    ELSE IF sigs = {"timeout"} THEN 504
    ELSE IF sigs = {"rate limit"} THEN 429
    ELSE 500

\* C19: a dispatch failure of one class is answered with the code of that class, and
\* an error of no class with 500, whatever the session state is at that moment.
C19_CodeByClass ==
    [][\A h \in sends, sigs \in SUBSET Signatures :
          (SendFailure(h, sigs) /\ Cardinality(sigs) <= 1)
              => obs'.code = ClassCode(sigs)]_vars

\* C20: the step that answers a successful send leaves an outbound Message with status
\* sent linked to the resolved contact, that contact's lastContacted at the send time,
\* and the contact in-progress if it was new.
C20_SendUpdatesContact ==
    [][\A h \in sends :
          (SendUpdate(h) \/ SendMessageNew(h))
              => /\ \E i \in DOMAIN messages' :
                       /\ messages'[i].contactId = h.doc.id
                       /\ messages'[i].direction = "outbound"
                       /\ messages'[i].status = "sent"
                 /\ contacts'[h.doc.id].lastContacted = Now
                 /\ contacts[h.doc.id].queryStatus = "new"
                       => contacts'[h.doc.id].queryStatus = "in-progress"]_vars

\* the handler h created its contact (its copy is not one a query returned)
CreatedContact(h) == h.doc.id # NoContact /\ h.doc = [NoDoc EXCEPT !.id = h.doc.id]

\* C21: for a phone that had no Contact, the handler's create step adds exactly one
\* Contact (new, unreadCount 1, lastContacted = the event timestamp), and its message
\* step adds one inbound, delivered Message with the classifier's label and score and
\* the id of that Contact; a failed name lookup leaves the handler on its way to create.
C21_NewContactIngest ==
    [][\A h \in inbound :
          /\ InboundCreate(h)
                => /\ Len(contacts') = Len(contacts) + 1
                   /\ SubSeq(contacts', 1, Len(contacts)) = contacts
                   /\ LET c == contacts'[Len(contacts')] IN
                         /\ c.phone = h.phone
                         /\ c.queryStatus = "new"
                         /\ c.unreadCount = 1
                         /\ c.lastContacted = h.ts
          /\ (InboundMessage(h) /\ CreatedContact(h))
                => /\ Len(messages') = Len(messages) + 1
                   /\ SubSeq(messages', 1, Len(messages)) = messages
                   /\ LET m == messages'[Len(messages')] IN
                         /\ m.direction = "inbound"
                         /\ m.status = "delivered"
                         /\ m.sentiment = AnalyzeSentiment(h.body).sentiment
                         /\ m.sentimentScore = AnalyzeSentiment(h.body).score
                         /\ m.contactId = h.doc.id
                         /\ contacts[m.contactId].phone = h.phone
          /\ InboundName(h, FALSE)
                => \E g \in inbound' : g.pc = "create" /\ g.ts = h.ts]_vars

\* a negative message is stored for a contact that was created under the placeholder name
C21_Witness ==
    /\ last = "inbound_done"
    /\ Len(messages) > 0
    /\ LET m == messages[Len(messages)] IN
          /\ m.sentiment = "negative"
          /\ m.contactId \in ContactIds
          /\ contacts[m.contactId].name = CustomerName
          /\ contacts[m.contactId].unreadCount = 1

\* C22: the save of an inbound event for an existing Contact leaves the stored
\* unreadCount one higher than it was, lastContacted at the event timestamp, and the
\* status new if it was resolved or closed and as it was otherwise.
C22_ExistingContactIngest ==
    [][\A h \in inbound :
          InboundSave(h)
              => LET before == contacts[h.doc.id]
                     after  == contacts'[h.doc.id] IN
                   /\ after.unreadCount = before.unreadCount + 1
                   /\ after.lastContacted = h.ts
                   /\ after.queryStatus = IF before.queryStatus \in {"resolved", "closed"}
                                          THEN "new" ELSE before.queryStatus]_vars

\* the handler of the event with timestamp ts is gone and nothing took its place
Dropped(h) ==
    /\ inbound' = inbound \ {h}
    /\ arrived' = arrived
    /\ UNCHANGED <<contacts, messages>>

\* C23 as stated: after a failure of any step, the name lookup included, the event is
\* dropped and the session state is as before.
C23_AnyFailureDrops ==
    [][\A h \in inbound :
          (InboundFail(h) \/ InboundName(h, FALSE))
              => Dropped(h) /\ UNCHANGED sessionState]_vars

\* C23: a failed contact lookup, create, save or message create drops the event without
\* retry; a failed name lookup is caught on its own and the event goes on under the
\* placeholder name; the session state is unchanged by either.
C23_FailureCaught ==
    [][\A h \in inbound :
          /\ InboundFail(h) => Dropped(h) /\ UNCHANGED sessionState
          /\ InboundName(h, FALSE)
                => /\ inbound' = (inbound \ {h}) \cup
                                    {[h EXCEPT !.pc = "create", !.name = CustomerName]}
                   /\ UNCHANGED <<contacts, messages, arrived>>
                   /\ UNCHANGED sessionState]_vars

\* the save of an existing contact failed while the session was ready
C23_Witness ==
    /\ last = "inbound_failed"
    /\ obs.kind = "save"
    /\ isReady
    /\ whatsappClient = "ready"

\* the send requests whose transport call has not answered yet
InFlight == {h \in sends : h.pc = "dispatch"}

\* C24: at most one transport send call is in flight at any time.
C24_ExclusiveSend == Cardinality(InFlight) <= 1

\* C25: the inbound Messages of one sender are persisted in the order their events
\* arrived: a Message stored later never carries an earlier event's timestamp.
C25_IngestInArrivalOrder ==
    \A i, j \in DOMAIN messages :
        (/\ i < j
         /\ messages[i].direction = "inbound" /\ messages[j].direction = "inbound"
         /\ messages[i].phone = messages[j].phone)
            => messages[i].ts <= messages[j].ts

\* the entries of the list that was just sent
Listed == IF last = "list" THEN {obs.list[k] : k \in DOMAIN obs.list} ELSE {}

\* C26: in every entry of the list, unreadCount is the Contact's stored unreadCount,
\* messageCount is the number of the contact's Messages and lastMessage is the one
\* with the greatest timestamp.
C26_SummaryCounts ==
    \A e \in Listed :
        e.contact # NoContact
            => /\ e.unreadCount = contacts[e.contact].unreadCount
               /\ e.messageCount = Cardinality(InGroup(e.contact))
               /\ e.lastMessage.timestamp = MaxTimestamp(InGroup(e.contact))

\* the inbound Messages of contact id
InboundOf(id) == {i \in InGroup(id) : messages[i].direction = "inbound"}

\* C27: in every entry of the list, the sentiment is the stored label of the contact's
\* most recent inbound Message, and neutral only when it has no inbound Message.
C27_LatestInboundSentiment ==
    \A e \in Listed :
        e.contact # NoContact
            => IF InboundOf(e.contact) = {}
               THEN e.sentiment = "neutral"
               ELSE \E i \in InboundOf(e.contact) :
                       /\ \A j \in InboundOf(e.contact) : messages[j].ts <= messages[i].ts
                       /\ e.sentiment = messages[i].sentiment

\* C28: the list has exactly one entry for each Contact that has a Message, and no
\* entry for anything else (Messages with no contactId or with one no Contact has).
C28_OneEntryPerContact ==
    last = "list"
        => /\ \A k \in DOMAIN obs.list :
                 /\ obs.list[k].contact \in ContactIds
                 /\ InGroup(obs.list[k].contact) # {}
           /\ \A id \in ContactIds :
                 InGroup(id) # {}
                    => Cardinality({k \in DOMAIN obs.list : obs.list[k].contact = id}) = 1

\* C29: the list is in descending order of lastMessage.timestamp.
C29_SortedByLastMessage ==
    last = "list"
        => \A k \in DOMAIN obs.list :
              (k + 1) \in DOMAIN obs.list
                 => obs.list[k].lastMessage.timestamp >= obs.list[k + 1].lastMessage.timestamp

\* the whole minutes between lastContacted and the clock of the call
ElapsedMinutes == (sla.now - sla.lastMessageTime) \div MsPerMinute

\* C30: with threshold 120 and a whole number of elapsed minutes, remaining is
\* 120 - elapsed; remaining <= 0 is overdue and urgent with minutes |remaining|;
\* 0 < remaining <= 30 is urgent, not overdue, with minutes remaining; remaining > 30
\* is neither, with hours remaining div 60 and minutes remaining mod 60 in the text;
\* 89 gives "0h 31m remaining", 91 gives "29m remaining", 125 gives "5m overdue".
C30_SlaWindow ==
    (/\ last = "sla"
     /\ sla.lastMessageTime # NoTime
     /\ (sla.now - sla.lastMessageTime) % MsPerMinute = 0)
        => LET remaining == 120 - ElapsedMinutes
               w         == sla.window IN
             /\ remaining <= 0
                   => /\ w.overdue /\ w.urgent
                      /\ w.minutes = 0 - remaining
                      /\ w.text = ToString(0 - remaining) \o "m overdue"
             /\ (0 < remaining /\ remaining <= 30)
                   => /\ ~w.overdue /\ w.urgent
                      /\ w.minutes = remaining
                      /\ w.text = ToString(remaining) \o "m remaining"
             /\ remaining > 30
                   => /\ ~w.overdue /\ ~w.urgent
                      /\ w.text = ToString(remaining \div 60) \o "h "
                                     \o ToString(remaining % 60) \o "m remaining"
             /\ ElapsedMinutes = 89  => w.text = "0h 31m remaining"
             /\ ElapsedMinutes = 91  => w.text = "29m remaining"
             /\ ElapsedMinutes = 125 => w.text = "5m overdue"

\* the window of a contact last contacted 89 minutes ago has been computed
C30_Witness ==
    /\ last = "sla"
    /\ sla.lastMessageTime # NoTime
    /\ sla.now - sla.lastMessageTime = 89 * MsPerMinute
    /\ sla.window.text = "0h 31m remaining"
    /\ ~sla.window.urgent

\* C31: the phone of a send request is judged by the number of its digits alone: none
\* is rejected as empty (required), 1 to 9 as too short, more than 15 as too long, each
\* with 400; 10 to 15 pass the phone validation and the transport is called with the
\* digits only.
C31_PhoneValidation ==
    [][(last' \in {"send_rejected", "send_start"} /\ SendGuard)
          => \A phone \in RawPhones, message \in RawMessages \ {<<>>} :
               \A id \in RequestIds(phone, message) :
                 SendRequest(phone, message, id)
                    => LET n == DigitCount(phone) IN
                         /\ n = 0
                              => /\ last' = "send_rejected" /\ obs'.code = 400
                                 /\ obs'.kind \in {"Required", "EmptyPhone"}
                         /\ (1 <= n /\ n <= 9)
                              => /\ last' = "send_rejected" /\ obs'.code = 400
                                 /\ obs'.kind = "TooShort"
                         /\ n > 15
                              => /\ last' = "send_rejected" /\ obs'.code = 400
                                 /\ obs'.kind = "TooLong"
                         /\ (10 <= n /\ n <= 15)
                              => /\ obs'.kind \notin {"Required", "EmptyPhone",
                                                       "TooShort", "TooLong"}
                                 /\ last' = "send_start"
                                      => \E h \in sends' \ sends :
                                            /\ Len(h.phone) = n
                                            /\ \A i \in DOMAIN h.phone :
                                                  h.phone[i] \in DigitChars]_vars

\* the transport was called with the ten digits of a phone written with brackets
C31_Witness ==
    /\ last = "send_start"
    /\ \E h \in sends : Len(h.phone) = 10 /\ h.pc = "dispatch"

\* the number of places of the text m at which the word w starts
Occurrences(m, w) ==
    Cardinality({i \in 1..(Len(m) - Len(w) + 1) : SubSeq(m, i, i + Len(w) - 1) = w})
\* the substring occurrences of the keywords W in m, whatever the case
RECURSIVE OccurrencesOfAll(_, _)
OccurrencesOfAll(m, W) ==
    IF W = {} THEN 0
    ELSE LET w == CHOOSE x \in W : TRUE
         IN  Occurrences(ToLowerCase(m), w) + OccurrencesOfAll(m, W \ {w})

\* C32: the label of a text is negative (0.7) if the negative keywords occur more often
\* in it than the positive ones, positive (0.7) if the positive ones occur more often,
\* and neutral (0.5) on a tie.
C32_ClassifyByOccurrences ==
    last = "classified"
        => LET pos == OccurrencesOfAll(verdict.text, PositiveWords)
               neg == OccurrencesOfAll(verdict.text, NegativeWords)
           IN  verdict.result =
                  IF neg > pos THEN [sentiment |-> "negative", score |-> 7]
                  ELSE IF pos > neg THEN [sentiment |-> "positive", score |-> 7]
                  ELSE [sentiment |-> "neutral", score |-> 5]

\* C33: the answer of the pairing query follows the state by strict priority: with a
\* pairing code held, the image of that code or the raw code; otherwise connected if
\* the session is ready; otherwise initializing.
C33_PairingQueryPriority ==
    last = "qr_response"
        => /\ obs.code = 200
           /\ IF qrCodeData # NoQr
              THEN obs.kind \in {"qrImage:" \o qrCodeData, "qr:" \o qrCodeData}
              ELSE IF isReady THEN obs.kind = "connected"
              ELSE obs.kind = "initializing"

\* C34: the connected flag is never true while the client handle is null or while the
\* handle names a replacement client that is still initializing (the least the claim
\* asks of isReady: a current client that has emitted ready and not failed since).
C34_ReadyMeansCurrentClient ==
    isReady => (whatsappClient # NoClient /\ whatsappClient # "starting")

\* C35: the delayed cleanup of a disconnected event never takes the handle away from a
\* client that is alive: when it fires, the handle names the disconnected client or
\* nothing.
C35_CleanupOnlyOwnClient ==
    [][\A t \in Timers :
          CleanupFire(t) => whatsappClient \in {NoClient, "gone"}]_vars

\* the retry timers that are pending, torn down or not
RetryTimerCount ==
    CopiesIn([kind |-> "retry", stale |-> FALSE], timers)
        + CopiesIn([kind |-> "retry", stale |-> TRUE], timers)

\* C36: at most one retry timer is pending at any time.
C36_OneRetryPerFailure == RetryTimerCount <= 1

\* C37: no two stored Contacts have the same phone.
C37_OneContactPerPhone ==
    \A i, j \in ContactIds : contacts[i].phone = contacts[j].phone => i = j

\* C38: GET /status never answers connected = true together with hasQR = true.
C38_NoCodeWhileConnected ==
    last = "status" => ~(obs.connected /\ obs.hasQR)

\* C39: the contact write of a send changes queryStatus only when the stored status is
\* new, and then to in-progress.
C39_SendKeepsLaterStatus ==
    [][\A h \in sends :
          SendUpdate(h) =>
             (contacts'[h.doc.id].queryStatus # contacts[h.doc.id].queryStatus
                 => /\ contacts[h.doc.id].queryStatus = "new"
                    /\ contacts'[h.doc.id].queryStatus = "in-progress")]_vars

====
